---- MODULE Spec2Model ----
(***************************************************************************)
(* Side table (QmlDeclarativeData), weak-reference guards (QmlGuard) and   *)
(* the registry QmlDeclarativeData::get of the QtDeclarative module, the   *)
(* type name script class (QmlTypeNameScriptClass) and the Text item       *)
(* (QmlGraphicsText).                                                      *)
(*                                                                         *)
(* Pointers are modelled as small integers (0 is the null pointer) and a   *)
(* pointer-to-pointer (QmlGuard::prev, prevContextObject) as a record that *)
(* names the field it points at.                                           *)
(***************************************************************************)
EXTENDS Integers, Sequences, FiniteSets, TLC

\* ---------------------------------------------------------------- bounds
NumHosts == 2
NumGuards == 3
NumContexts == 1
NumBindings == 2
NumSlots == 2
NumTypes == 2
NumNamespaces == 1
MaxEnums == 2
MaxMade == 2

Hosts == 1..NumHosts
Guards == 1..NumGuards
Contexts == 1..NumContexts
Bindings == 1..NumBindings
Slots == 0..(NumSlots - 1)
\* one QmlDeclarativeData per host, and room for one allocation too many
MaxData == NumHosts + 1
DataIds == 1..MaxData
\* QmlType objects, by QmlType::index()
Types == 1..NumTypes
\* QmlTypeNameCache objects
Namespaces == 1..NumNamespaces
\* QObject pointers: the hosts come first, then the attached objects; the
\* attached object the function of type t makes for host h at its call
\* number gen + 1 that makes one
AttachedObject(h, t, gen) ==
    NumHosts + gen * (NumHosts * NumTypes) + (h - 1) * NumTypes + t

NULL == 0

\* ------------------------------------------------- pointers to pointers
NullSlot == [kind |-> "null", id |-> NULL]
\* &data->guards
GuardsSlot(d) == [kind |-> "guards", id |-> d]
\* &guard->next
NextSlot(g) == [kind |-> "next", id |-> g]
\* &context->contextObjects
ContextObjectsSlot(c) == [kind |-> "contextObjects", id |-> c]
\* &data->nextContextObject
NextContextObjectSlot(d) == [kind |-> "nextContextObject", id |-> d]

\* what a build can do with a store through a null or dangling pointer
UBOutcomes == {"trap", "elided"}

VARIABLES
    hostState,        \* per host: "alive", "destroying", "destroyed"
    declarativeData,  \* QObjectPrivate::declarativeData of each host
    heap,             \* the QmlDeclarativeData objects, by allocation number
    nAlloc,           \* number of `new QmlDeclarativeData` executed
    guard,            \* QmlGuard objects: o, next, prev
    contextObjects,   \* QmlContext::contextObjects, head of each context's list
    binding,          \* binding records: owner side table and slot
    pc,               \* the call in progress on the single engine thread
    last,             \* the last completed call and its result
    fault,            \* the process has faulted (invalid memory access)
    scriptClass,      \* QmlTypeNameScriptClass members: object, type, enumValue
    factory,          \* attached objects made so far, and the calls per host and type
    lookup,           \* the last call on the script class, its inputs and outcome
    textItem,         \* QmlGraphicsTextPrivate members of the Text item
    textCall          \* the last call on the Text item and what it did

vars == <<hostState, declarativeData, heap, nAlloc, guard, contextObjects,
          binding, pc, last, fault, scriptClass, factory, lookup, textItem,
          textCall>>

resolverVars == <<scriptClass, factory, lookup>>

textVars == <<textItem, textCall>>

\* ------------------------------------------------------- object layouts
\* QHash<int, QObject *> *attachedProperties = 0: no entry for any type
NoHash == [t \in {} |-> NULL]

\* the constructor with nextContextObject left uninitialised
NewQmlDeclarativeDataNextUninit(ctxt) ==
    [alloc |-> "live", context |-> ctxt, bindings |-> <<>>,
     nextContextObject |-> 1, prevContextObject |-> NullSlot,
     bindingBits |-> {}, attachedProperties |-> NoHash,
     guards |-> NULL]

\* the constructor with bindingBits left uninitialised
NewQmlDeclarativeDataBitsUninit(ctxt) ==
    [alloc |-> "live", context |-> ctxt, bindings |-> <<>>,
     nextContextObject |-> NULL, prevContextObject |-> NullSlot,
     bindingBits |-> {0}, attachedProperties |-> NoHash,
     guards |-> NULL]

\* QmlDeclarativeData(QmlContext *ctxt = 0): every list field starts null
NewQmlDeclarativeData(ctxt) ==
    [alloc |-> "live", context |-> ctxt, bindings |-> <<>>,
     nextContextObject |-> NULL, prevContextObject |-> NullSlot,
     bindingBits |-> {}, attachedProperties |-> NoHash,
     guards |-> NULL]

Unallocated ==
    [alloc |-> "none", context |-> NULL, bindings |-> <<>>,
     nextContextObject |-> NULL, prevContextObject |-> NullSlot,
     bindingBits |-> {}, attachedProperties |-> NoHash,
     guards |-> NULL]

\* a guard that watches nothing
NewGuard == [o |-> NULL, next |-> NULL, prev |-> NullSlot]

\* no property slot
NoSlot == -1

\* a binding that is attached to nothing
NewBinding == [owner |-> NULL, slot |-> NoSlot]

\* from: the host a guard under retarget was watching before
Idle == [op |-> "idle", h |-> NULL, g |-> NULL, phase |-> "none", gs |-> {},
         bs |-> {}, from |-> NULL]
\* gs: the guards a teardown had to invalidate; bs: the bindings signalled
\* fresh: the call allocated a side table; from: as in pc
NoCall == [op |-> "none", h |-> NULL, g |-> NULL, create |-> FALSE,
           ret |-> NULL, gs |-> {}, bs |-> {}, fresh |-> FALSE, from |-> NULL]

\* ------------------------------------------------ name resolver layouts
\* identifiers, as the sequences of their character codes
Foo == <<70, 111, 111>>
Bar == <<66, 97, 114>>
foo == <<102, 111, 111>>
bar == <<98, 97, 114>>
Identifiers == {Foo, Bar, foo, bar}

\* QChar::isUpper() on the characters used here
isUpper(c) == c \in 65..90

\* the keys and values enumerators are declared with; Bar is a name that
\* no enumerator declares
EnumKeys == {Foo}
EnumValues == {-1, 7, 9}

\* a QMetaEnum: its keys and their values
MetaEnums == UNION {[K -> EnumValues] : K \in SUBSET EnumKeys}

\* a QMetaObject's enumerators, by index: those of the base classes come
\* first, those of the most derived class last
MetaObjects == UNION {[1..n -> MetaEnums] : n \in 0..MaxEnums}

\* QmlTypeNameScriptClass::TypeNameMode
Modes == {"IncludeEnums", "ExcludeEnums"}

\* QScriptClass::QueryFlags, as the set of flags that are set
HandlesReadAccess == "read"
HandlesWriteAccess == "write"
QueryFlags == SUBSET {HandlesReadAccess, HandlesWriteAccess}

\* TypeNameData(QObject *o, QmlType *t, TypeNameMode m)
TypeSubjects ==
    [object : Hosts \cup {NULL}, type : Types, typeNamespace : {NULL},
     mode : Modes]

\* TypeNameData(QObject *o, QmlTypeNameCache *n, TypeNameMode m)
NamespaceSubjects ==
    [object : Hosts \cup {NULL}, type : {NULL}, typeNamespace : Namespaces,
     mode : Modes]

NoData == [object |-> NULL, type |-> NULL, typeNamespace |-> NULL,
           mode |-> "IncludeEnums"]

\* what QmlTypeNameCache::data(name) returns: no entry, an entry that is a
\* type, or an entry that is not (a nested namespace)
NoEntry == [found |-> FALSE, type |-> NULL]
CacheData == {NoEntry} \cup [found : {TRUE}, type : Types \cup {NULL}]

\* the constructor sets object and type; enumValue is left as it is, and
\* assigned records whether queryProperty has stored into it since
NewScriptClass == [object |-> NULL, type |-> NULL, enumValue |-> 0,
                   assigned |-> FALSE]

\* made: the attached objects the attached-properties function of a type
\* has made for a host; declined: whether it has returned none for the host
NoFactoryCalls == [made |-> [h \in Hosts |-> [t \in Types |-> 0]],
                   declined |-> [h \in Hosts |-> [t \in Types |-> FALSE]]]

NoResult == [kind |-> "none", value |-> 0]

\* d: what the namespace returned; metaObject: the enumerators of the type;
\* called: the attached-properties function was called, and made: it
\* returned an object; target: the object the generic accessor was called on
NoLookup == [op |-> "none", data |-> NoData, name |-> <<>>, d |-> NoEntry,
             metaObject |-> <<>>, called |-> FALSE, made |-> FALSE,
             flags |-> {}, target |-> NULL, result |-> NoResult]

\* what the collaborators of one queryProperty call answer: the namespace,
\* the type's meta object, the attached-properties function (made: whether
\* it returns an object) and the generic accessor's query on that object
DefaultEnv == [d |-> NoEntry, metaObject |-> <<>>, made |-> TRUE,
               handles |-> {HandlesReadAccess, HandlesWriteAccess}]

\* the context a host was declared in
HostContext(h) == ((h - 1) % NumContexts) + 1

\* the memory the pure operators below work on
Mem == [gd |-> guard, hp |-> heap, dd |-> declarativeData, na |-> nAlloc,
        ft |-> fault]


\* ---------------------------------------------------- Text item layouts
\* texts, as the sequences of their character codes
\* ""
NoText == <<>>
\* "Hi"
Hi == <<72, 105>>
\* "a\nb"
TwoLines == <<97, 10, 98>>
\* "<b>x"
Bold == <<60, 98, 62, 120>>
\* "<a href=u>x</a>"
Link == <<60, 97, 32, 104, 114, 101, 102, 61, 117, 62, 120, 60, 47, 97, 62>>
Texts == {NoText, Hi, TwoLines, Bold, Link}

\* QmlGraphicsText::TextFormat and TextElideMode
TextFormats == {"PlainText", "RichText", "AutoText", "StyledText"}
ElideModes == {"ElideNone", "ElideRight"}

\* QChar::LineSeparator, U+2028
LineSeparator == 8232

\* QTextDocument *doc: whether it was created, and the html it was given last
NoDocument == [exists |-> FALSE, html |-> <<>>]
\* QTextLayout layout: the text it holds, how it got it (setText or
\* QmlStyledText::parse) and whether the text was elided first
NoLayout == [by |-> "none", text |-> <<>>, elided |-> FALSE]
\* cachedLayoutSize: what was measured, the layout or the document
NoSize == [of |-> "none", text |-> <<>>]

\* a Text item after construction; the format is AutoText and wrapping is
\* off by default, dirty is what the private object's constructor sets
NewText(dirty) ==
    [text |-> NoText, format |-> "AutoText", richText |-> FALSE,
     doc |-> NoDocument, dirty |-> dirty, complete |-> FALSE,
     layout |-> NoLayout, singleline |-> FALSE, cachedLayoutSize |-> NoSize,
     activeLink |-> <<>>, wrap |-> FALSE, elideMode |-> "ElideNone",
     widthValid |-> FALSE, imgDirty |-> TRUE]

\* no mouse press has been delivered yet
NoPress == <<0>>

\* the last call on the Text item: how often it called updateLayout and
\* updateSize, the links it emitted linkActivated with, whether it left the
\* event accepted, the anchor under the mouse event; pressed is the anchor
\* under the last mouse press
NoTextCall == [op |-> "none", updateLayout |-> 0, updateSize |-> 0,
               emitted |-> <<>>, accepted |-> TRUE, anchor |-> <<>>,
               pressed |-> NoPress]

\* ------------------------------------------------------------- registry
\* get that allocates whenever create is set, also over an existing side table
getAlwaysNew(m, object, create) ==
    IF create
    THEN LET d == m.na + 1
         IN [m |-> [m EXCEPT !.dd[object] = d,
                             !.hp[d] = NewQmlDeclarativeData(NULL),
                             !.na = d],
             ret |-> d]
    ELSE [m |-> m, ret |-> m.dd[object]]

\* QmlDeclarativeData::get(object, create)
get(m, object, create) ==
    IF m.dd[object] # NULL
    THEN [m |-> m, ret |-> m.dd[object]]
    ELSE IF create
         THEN LET d == m.na + 1
              IN [m |-> [m EXCEPT !.dd[object] = d,
                                  !.hp[d] = NewQmlDeclarativeData(NULL),
                                  !.na = d],
                  ret |-> d]
         ELSE [m |-> m, ret |-> NULL]

\* get(object, create) executes `new`
Allocates(m, object, create) == m.dd[object] = NULL /\ create

\* ---------------------------------------------------------------- guards
\* can a store through this pointer hit valid memory
SlotValid(m, slot) ==
    CASE slot.kind = "guards" -> m.hp[slot.id].alloc = "live"
      [] slot.kind = "next" -> TRUE
      [] OTHER -> FALSE

\* *slot = val
StoreGuardPtr(m, slot, val) ==
    CASE slot.kind = "guards" -> [m EXCEPT !.hp[slot.id].guards = val]
      [] slot.kind = "next" -> [m EXCEPT !.gd[slot.id].next = val]
      [] OTHER -> m

\* addGuard without `next = data->guards`: the list so far is dropped
addGuardNoNext(m, g) ==
    LET r == get(m, m.gd[g].o, TRUE)
        data == r.ret
        nxt == r.m.gd[g].next
        m2 == IF nxt # NULL THEN [r.m EXCEPT !.gd[nxt].prev = NextSlot(g)] ELSE r.m
        m3 == [m2 EXCEPT !.hp[data].guards = g]
    IN [m3 EXCEPT !.gd[g].prev = GuardsSlot(data)]

\* addGuard without the fix of the old head's back-reference
addGuardNoBackRef(m, g) ==
    LET r == get(m, m.gd[g].o, TRUE)
        data == r.ret
        nxt == r.m.hp[data].guards
        m1 == [r.m EXCEPT !.gd[g].next = nxt]
        m3 == [m1 EXCEPT !.hp[data].guards = g]
    IN [m3 EXCEPT !.gd[g].prev = GuardsSlot(data)]

\* QmlGuard<T>::addGuard()
addGuard(m, g) ==
    LET r == get(m, m.gd[g].o, TRUE)
        data == r.ret
        nxt == r.m.hp[data].guards
        m1 == [r.m EXCEPT !.gd[g].next = nxt]
        m2 == IF nxt # NULL THEN [m1 EXCEPT !.gd[nxt].prev = NextSlot(g)] ELSE m1
        m3 == [m2 EXCEPT !.hp[data].guards = g]
    IN [m3 EXCEPT !.gd[g].prev = GuardsSlot(data)]

\* remGuard without `next->prev = prev`
remGuardNoPrevFix(m, g, ub) ==
    LET nxt == m.gd[g].next
        prv == m.gd[g].prev
        ok == SlotValid(m, prv)
        m2 == IF ok THEN StoreGuardPtr(m, prv, nxt) ELSE m
    IN IF ~ok /\ ub = "trap"
       THEN [m EXCEPT !.ft = TRUE]
       ELSE [m2 EXCEPT !.gd[g].next = NULL, !.gd[g].prev = NullSlot]

\* remGuard without `*prev = next`
remGuardNoStore(m, g, ub) ==
    LET nxt == m.gd[g].next
        prv == m.gd[g].prev
        m1 == IF nxt # NULL THEN [m EXCEPT !.gd[nxt].prev = prv] ELSE m
    IN [m1 EXCEPT !.gd[g].next = NULL, !.gd[g].prev = NullSlot]

\* remGuard that releases the side table whose list it has emptied
remGuardFreesEmpty(m, g, ub) ==
    LET nxt == m.gd[g].next
        prv == m.gd[g].prev
        m1 == IF nxt # NULL THEN [m EXCEPT !.gd[nxt].prev = prv] ELSE m
        ok == SlotValid(m1, prv)
        m2 == IF ok THEN StoreGuardPtr(m1, prv, nxt) ELSE m1
        m3 == IF ok /\ prv.kind = "guards" /\ nxt = NULL
              THEN [m2 EXCEPT !.hp[prv.id].alloc = "freed"]
              ELSE m2
    IN IF ~ok /\ ub = "trap"
       THEN [m1 EXCEPT !.ft = TRUE]
       ELSE [m3 EXCEPT !.gd[g].next = NULL, !.gd[g].prev = NullSlot]

\* QmlGuard<T>::remGuard(); ub is what the build does when *prev is no
\* valid memory (prev null, or pointing into a released side table)
remGuard(m, g, ub) ==
    LET nxt == m.gd[g].next
        prv == m.gd[g].prev
        m1 == IF nxt # NULL THEN [m EXCEPT !.gd[nxt].prev = prv] ELSE m
        ok == SlotValid(m1, prv)
        m2 == IF ok THEN StoreGuardPtr(m1, prv, nxt) ELSE m1
    IN IF ~ok /\ ub = "trap"
       THEN [m1 EXCEPT !.ft = TRUE]
       ELSE [m2 EXCEPT !.gd[g].next = NULL, !.gd[g].prev = NullSlot]

\* the guard's target field o is written by the guard's owner
setObject(m, g, h) == [m EXCEPT !.gd[g].o = h]

\* the guards met by following next from cur, at most n of them
RECURSIVE ListFrom(_, _, _)
ListFrom(gd, cur, n) ==
    IF cur = NULL \/ n = 0 THEN <<>>
    ELSE <<cur>> \o ListFrom(gd, gd[cur].next, n - 1)

\* the GuardList of side table d in a given memory
GuardListIn(m, d) == ListFrom(m.gd, m.hp[d].guards, NumGuards + 1)
GuardList(d) == GuardListIn(Mem, d)

Range(s) == {s[i] : i \in 1..Len(s)}

\* guard.target()
target(g) == guard[g].o

Linked(g) == guard[g].prev # NullSlot

\* the side tables whose GuardList contains g
ListsOf(g) == {d \in DataIds : heap[d].alloc # "none" /\ g \in Range(GuardList(d))}

\* ------------------------------------------------------------- teardown
\* step (a): every guard of the list gets target absent and is unlinked
RECURSIVE NullGuards(_, _)
NullGuards(gd, cur) ==
    IF cur = NULL THEN gd
    ELSE NullGuards([gd EXCEPT ![cur] = NewGuard], gd[cur].next)

\* step (b): every binding of the list is detached and told its target is gone
DetachAll(bd, d) ==
    [b \in Bindings |->
        IF bd[b].owner = d
        THEN NewBinding
        ELSE bd[b]]

\* *slot = val for a context-list slot
StoreContextPtr(hp, co, slot, val) ==
    CASE slot.kind = "contextObjects" ->
            [hp |-> hp, co |-> [co EXCEPT ![slot.id] = val]]
      [] slot.kind = "nextContextObject" ->
            [hp |-> [hp EXCEPT ![slot.id].nextContextObject = val], co |-> co]
      [] OTHER -> [hp |-> hp, co |-> co]

\* step (c), ContextObjectList.unlink(sideTable)
unlink(hp, co, d) ==
    LET nxt == hp[d].nextContextObject
        prv == hp[d].prevContextObject
        h1 == IF nxt # NULL THEN [hp EXCEPT ![nxt].prevContextObject = prv] ELSE hp
        r == StoreContextPtr(h1, co, prv, nxt)
    IN [hp |-> [r.hp EXCEPT ![d].nextContextObject = NULL,
                            ![d].prevContextObject = NullSlot],
        co |-> r.co]

\* ContextObjectList.link(context, sideTable): prepend
link(hp, co, c, d) ==
    LET nxt == co[c]
        h1 == [hp EXCEPT ![d].nextContextObject = nxt,
                         ![d].prevContextObject = ContextObjectsSlot(c),
                         ![d].context = c]
        h2 == IF nxt # NULL
              THEN [h1 EXCEPT ![nxt].prevContextObject = NextContextObjectSlot(d)]
              ELSE h1
    IN [hp |-> h2, co |-> [co EXCEPT ![c] = d]]

RECURSIVE ContextListFrom(_, _, _)
ContextListFrom(hp, cur, n) ==
    IF cur = NULL \/ n = 0 THEN <<>>
    ELSE <<cur>> \o ContextListFrom(hp, hp[cur].nextContextObject, n - 1)

\* the side tables forEach(c, ...) enumerates
ContextList(c) == ContextListFrom(heap, contextObjects[c], MaxData + 1)


\* ------------------------------------------------------------- bindings
hasBindingBit(hp, d, i) == i \in hp[d].bindingBits

\* the binding of side table d for slot i, NULL if there is none
BindingFor(bd, d, i) ==
    IF \E b \in Bindings : bd[b].owner = d /\ bd[b].slot = i
    THEN CHOOSE b \in Bindings : bd[b].owner = d /\ bd[b].slot = i
    ELSE NULL

SeqWithout(s, x) == SelectSeq(s, LAMBDA y : y # x)

\* attach that links the new binding without detaching the one in the slot
attachNoSupersede(hp, bd, d, i, b) ==
    [hp |-> [hp EXCEPT ![d].bindingBits = @ \cup {i},
                       ![d].bindings = <<b>> \o @],
     bd |-> [bd EXCEPT ![b] = [owner |-> d, slot |-> i]],
     superseded |-> {}]

\* attach(sideTable, slotIndex, binding)
attach(hp, bd, d, i, b) ==
    LET old == IF hasBindingBit(hp, d, i) THEN BindingFor(bd, d, i) ELSE NULL
        bd1 == IF old # NULL THEN [bd EXCEPT ![old] = NewBinding] ELSE bd
        l1 == IF old # NULL THEN SeqWithout(hp[d].bindings, old) ELSE hp[d].bindings
    IN [hp |-> [hp EXCEPT ![d].bindingBits = @ \cup {i},
                          ![d].bindings = <<b>> \o l1],
        bd |-> [bd1 EXCEPT ![b] = [owner |-> d, slot |-> i]],
        superseded |-> IF old # NULL THEN {old} ELSE {}]

\* detach(sideTable, slotIndex)
detach(hp, bd, d, i) ==
    LET old == BindingFor(bd, d, i)
    IN [hp |-> [hp EXCEPT ![d].bindingBits = @ \ {i},
                          ![d].bindings = SeqWithout(@, old)],
        bd |-> IF old # NULL THEN [bd EXCEPT ![old] = NewBinding] ELSE bd,
        ret |-> old]

\* --------------------------------------------------------- name resolver
\* QHash::value(id): 0 when there is no entry
value(hash, id) == IF id \in DOMAIN hash THEN hash[id] ELSE NULL

\* QHash::insert(id, rv)
insert(hash, id, rv) ==
    [t \in DOMAIN hash \cup {id} |-> IF t = id THEN rv ELSE hash[t]]

\* qmlAttachedPropertiesObjectById(id, object): the object cached in the
\* side table, which is created if absent; without one the type's
\* attached-properties function is asked and what it makes is stored
attachedPropertiesObjectById(m, f, id, object, made) ==
    LET r == get(m, object, TRUE)
        data == r.ret
        rv == value(r.m.hp[data].attachedProperties, id)
        c == AttachedObject(object, id, f.made[object][id])
    IN IF rv # NULL
       THEN [m |-> r.m, f |-> f, ret |-> rv, called |-> FALSE]
       ELSE IF ~made
            THEN [m |-> r.m, f |-> [f EXCEPT !.declined[object][id] = TRUE],
                  ret |-> NULL, called |-> TRUE]
            ELSE [m |-> [r.m EXCEPT !.hp[data].attachedProperties =
                                        insert(@, id, c)],
                  f |-> [f EXCEPT !.made[object][id] = @ + 1],
                  ret |-> c, called |-> TRUE]

\* QMetaEnum::keyToValue(key): -1 when the enumerator has no such key
keyToValue(e, key) == IF key \in DOMAIN e THEN e[key] ELSE -1

\* the loop of queryProperty over the enumerators ii, ii - 1, ..., first:
\* the value of the first enumerator whose keyToValue is not -1, else -1
RECURSIVE enumLoop(_, _, _)
enumLoop(metaObject, enumName, ii) ==
    IF ii < 1 THEN -1
    ELSE LET v == keyToValue(metaObject[ii], enumName)
         IN IF v # -1 THEN v ELSE enumLoop(metaObject, enumName, ii - 1)

\* the namespace branch taking every entry of the namespace for a type
queryNamespaceAnyEntry(none, env) ==
    IF env.d.found
    THEN [none EXCEPT !.sc.type = env.d.type, !.flags = {HandlesReadAccess}]
    ELSE none

\* queryProperty, the subject being a namespace; none is the outcome
\* "not handled" with object and type reset
queryNamespace(none, env) ==
    IF env.d.found /\ env.d.type # NULL
    THEN [none EXCEPT !.sc.type = env.d.type, !.flags = {HandlesReadAccess}]
    ELSE none

\* the enumerator branch without `if (data->mode == IncludeEnums)`
queryEnumAnyMode(none, data, name, env) ==
    LET v == enumLoop(env.metaObject, name, Len(env.metaObject))
    IN IF v # -1
       THEN [none EXCEPT !.sc.enumValue = v, !.sc.assigned = TRUE,
                         !.flags = {HandlesReadAccess}]
       ELSE none

\* queryProperty, the subject being a type and the name starting in upper case
queryEnum(none, data, name, env) ==
    IF data.mode = "IncludeEnums"
    THEN LET v == enumLoop(env.metaObject, name, Len(env.metaObject))
         IN IF v # -1
            THEN [none EXCEPT !.sc.enumValue = v, !.sc.assigned = TRUE,
                              !.flags = {HandlesReadAccess}]
            ELSE none
    ELSE none

\* the attached branch without `if (!object) return 0`
queryAttachedNoNullTest(none, data, env) ==
    LET a == attachedPropertiesObjectById(none.m, none.f, data.type,
                                          data.object, env.made)
    IN [sc |-> [none.sc EXCEPT !.object = a.ret], m |-> a.m, f |-> a.f,
        flags |-> env.handles, target |-> a.ret, called |-> a.called]

\* queryProperty, the subject being a type with an object in scope and the
\* name not starting in upper case
queryAttached(none, data, env) ==
    LET a == attachedPropertiesObjectById(none.m, none.f, data.type,
                                          data.object, env.made)
    IN IF a.ret = NULL
       THEN [none EXCEPT !.m = a.m, !.f = a.f, !.called = a.called]
       ELSE [sc |-> [none.sc EXCEPT !.object = a.ret], m |-> a.m, f |-> a.f,
             flags |-> env.handles, target |-> a.ret, called |-> a.called]

\* queryProperty where a name in upper case that is no enumerator goes on to
\* the attached branch
queryPropertyEnumFallsThrough(sc, m, f, data, name, env) ==
    LET sc0 == [sc EXCEPT !.object = NULL, !.type = NULL]
        none == [sc |-> sc0, m |-> m, f |-> f, flags |-> {}, target |-> NULL,
                 called |-> FALSE]
        e == queryEnum(none, data, name, env)
    IN IF data.typeNamespace # NULL
       THEN queryNamespace(none, env)
       ELSE IF isUpper(name[1]) /\ e.flags # {}
            THEN e
            ELSE IF data.object # NULL
                 THEN queryAttached(none, data, env)
                 ELSE none

\* queryProperty where, with no object in scope, the generic accessor is
\* asked all the same and its answer reported
queryPropertyNoObjectTest(sc, m, f, data, name, env) ==
    LET sc0 == [sc EXCEPT !.object = NULL, !.type = NULL]
        none == [sc |-> sc0, m |-> m, f |-> f, flags |-> {}, target |-> NULL,
                 called |-> FALSE]
    IN IF data.typeNamespace # NULL
       THEN queryNamespace(none, env)
       ELSE IF isUpper(name[1])
            THEN queryEnum(none, data, name, env)
            ELSE IF data.object # NULL
                 THEN queryAttached(none, data, env)
                 ELSE [none EXCEPT !.flags = env.handles]

\* queryProperty without `object = 0; type = 0;`
queryPropertyNoReset(sc, m, f, data, name, env) ==
    LET none == [sc |-> sc, m |-> m, f |-> f, flags |-> {}, target |-> NULL,
                 called |-> FALSE]
    IN IF data.typeNamespace # NULL
       THEN queryNamespace(none, env)
       ELSE IF isUpper(name[1])
            THEN queryEnum(none, data, name, env)
            ELSE IF data.object # NULL
                 THEN queryAttached(none, data, env)
                 ELSE none

\* QmlTypeNameScriptClass::queryProperty(obj, name, flags)
queryProperty(sc, m, f, data, name, env) ==
    LET sc0 == [sc EXCEPT !.object = NULL, !.type = NULL]
        none == [sc |-> sc0, m |-> m, f |-> f, flags |-> {}, target |-> NULL,
                 called |-> FALSE]
    IN IF data.typeNamespace # NULL
       THEN queryNamespace(none, env)
       ELSE IF isUpper(name[1])
            THEN queryEnum(none, data, name, env)
            ELSE IF data.object # NULL
                 THEN queryAttached(none, data, env)
                 ELSE none

\* QmlTypeNameScriptClass::property(obj, name); junk is what a read of an
\* enumValue that was never stored into yields
property(sc, data, junk) ==
    IF sc.type # NULL
    THEN [result |-> [kind |-> "type reference", value |-> sc.type],
          target |-> NULL]
    ELSE IF sc.object # NULL
         THEN [result |-> [kind |-> "companion", value |-> sc.object],
               target |-> sc.object]
         ELSE [result |-> [kind |-> "enum value",
                           value |-> IF sc.assigned THEN sc.enumValue ELSE junk],
               target |-> NULL]

\* QmlTypeNameScriptClass::setProperty(o, n, v): the object the generic
\* accessor's setProperty is called on
setProperty(sc, data) == data.object

\* ------------------------------------------------------------- Text item
isLetter(c) == c \in 65..90 \/ c \in 97..122

\* Qt::mightBeRichText(text): the text has, before any line break, a `<`
\* that starts a tag: a name follows it and a `>` closes it
mightBeRichText(text) ==
    \E open \in 1..Len(text) :
        /\ text[open] = 60
        /\ \A i \in 1..(open - 1) : text[i] # 10
        /\ open < Len(text)
        /\ isLetter(text[open + 1])
        /\ \E close \in (open + 1)..Len(text) : text[close] = 62

\* "href="
Href == <<104, 114, 101, 102, 61>>

\* the anchors documentLayout()->anchorAt(pos) can yield for a document with
\* this html: what follows an href= up to the end of its tag
anchors(html) ==
    {SubSeq(html, p[1] + 5, p[2] - 1) :
        p \in {q \in (1..Len(html)) \X (1..Len(html)) :
                 /\ q[1] + 5 < q[2]
                 /\ SubSeq(html, q[1], q[1] + 4) = Href
                 /\ html[q[2]] = 62
                 /\ \A k \in (q[1] + 5)..(q[2] - 1) : html[k] # 62}}

\* tmp.replace(QLatin1Char('\n'), QChar::LineSeparator)
replace(text) ==
    [i \in 1..Len(text) |-> IF text[i] = 10 THEN LineSeparator ELSE text[i]]

contains(text, c) == \E i \in 1..Len(text) : text[i] = c

\* a handler starts on item d: no updateLayout and no updateSize call so far
Run(d) == [d |-> d, updateLayout |-> 0, updateSize |-> 0]

\* markImgDirty()
markImgDirty(r) == [r EXCEPT !.d.imgDirty = TRUE]

\* QmlGraphicsTextPrivate::updateSize()
updateSize(r) ==
    LET d == r.d
        n == [r EXCEPT !.updateSize = @ + 1]
    IN IF d.complete
       THEN IF d.text = <<>>
            THEN n
            ELSE IF ~d.richText
                 THEN [n EXCEPT !.d.cachedLayoutSize =
                                    [of |-> "layout", text |-> d.layout.text]]
                 ELSE [n EXCEPT !.d.singleline = FALSE,
                                !.d.cachedLayoutSize =
                                    IF d.doc.exists
                                    THEN [of |-> "document", text |-> d.doc.html]
                                    ELSE [of |-> "null document", text |-> <<>>]]
       ELSE [n EXCEPT !.d.dirty = TRUE]

\* updateLayout that lays the text out before the component is complete too
updateLayoutAtOnce(r) ==
    LET d == r.d
        n == [r EXCEPT !.updateLayout = @ + 1]
        tmp == replace(d.text)
        single == ~contains(tmp, LineSeparator)
        elide == single /\ d.elideMode # "ElideNone" /\ d.widthValid
    IN IF ~d.richText
       THEN IF d.format # "StyledText"
            THEN updateSize([n EXCEPT !.d.singleline = single,
                                      !.d.layout = [by |-> "setText",
                                                    text |-> tmp,
                                                    elided |-> elide]])
            ELSE updateSize([n EXCEPT !.d.singleline = FALSE,
                                      !.d.layout = [by |-> "parse",
                                                    text |-> d.text,
                                                    elided |-> FALSE]])
       ELSE updateSize(n)

\* QmlGraphicsTextPrivate::updateLayout()
updateLayout(r) ==
    LET d == r.d
        n == [r EXCEPT !.updateLayout = @ + 1]
        tmp == replace(d.text)
        single == ~contains(tmp, LineSeparator)
        elide == single /\ d.elideMode # "ElideNone" /\ d.widthValid
    IN IF d.complete
       THEN IF ~d.richText
            THEN IF d.format # "StyledText"
                 THEN updateSize([n EXCEPT !.d.singleline = single,
                                           !.d.layout = [by |-> "setText",
                                                         text |-> tmp,
                                                         elided |-> elide]])
                 ELSE updateSize([n EXCEPT !.d.singleline = FALSE,
                                           !.d.layout = [by |-> "parse",
                                                         text |-> d.text,
                                                         elided |-> FALSE]])
            ELSE updateSize(n)
       ELSE [n EXCEPT !.d.dirty = TRUE]

\* d->richText as setText and setTextFormat compute it
isRich(format, text) ==
    format = "RichText" \/ (format = "AutoText" /\ mightBeRichText(text))

\* setText without `d->doc->setHtml(n)`
setTextNoSetHtml(d, n) ==
    IF d.text = n
    THEN Run(d)
    ELSE LET rich == isRich(d.format, n)
             d1 == [d EXCEPT !.richText = rich]
             d2 == IF rich /\ ~d1.doc.exists
                   THEN [d1 EXCEPT !.doc = [exists |-> TRUE, html |-> <<>>]]
                   ELSE d1
             d3 == [d2 EXCEPT !.text = n]
         IN markImgDirty(updateLayout(Run(d3)))

\* QmlGraphicsText::setText(n)
setText(d, n) ==
    IF d.text = n
    THEN Run(d)
    ELSE LET rich == isRich(d.format, n)
             d1 == [d EXCEPT !.richText = rich]
             d2 == IF rich
                   THEN [d1 EXCEPT !.doc = [exists |-> TRUE, html |-> n]]
                   ELSE d1
             d3 == [d2 EXCEPT !.text = n]
         IN markImgDirty(updateLayout(Run(d3)))

\* QmlGraphicsText::setTextFormat(format)
setTextFormat(d, format) ==
    IF format = d.format
    THEN Run(d)
    ELSE LET wasRich == d.richText
             rich == isRich(format, d.text)
             d1 == [d EXCEPT !.format = format, !.richText = rich]
         IN IF wasRich /\ ~rich
            THEN markImgDirty(updateLayout(Run(d1)))
            ELSE IF ~wasRich /\ rich
                 THEN markImgDirty(updateLayout(Run(
                         [d1 EXCEPT !.doc = [exists |-> TRUE,
                                             html |-> d.text]])))
                 ELSE Run(d1)

\* QmlGraphicsText::setWrap(w)
setWrap(d, w) ==
    IF w = d.wrap
    THEN Run(d)
    ELSE markImgDirty(updateLayout(Run([d EXCEPT !.wrap = w])))

\* QmlGraphicsText::setElideMode(mode)
setElideMode(d, mode) ==
    IF mode = d.elideMode
    THEN Run(d)
    ELSE markImgDirty(updateLayout(Run([d EXCEPT !.elideMode = mode])))

\* QmlGraphicsText::geometryChanged(newGeometry, oldGeometry), the widths
\* differing; widthValid is what widthValid() answers from now on
geometryChanged(d, widthValid) ==
    LET d0 == [d EXCEPT !.widthValid = widthValid]
        d1 == IF /\ d0.singleline
                 /\ d0.elideMode # "ElideNone"
                 /\ d0.complete
                 /\ d0.widthValid
              THEN [d0 EXCEPT !.layout = [by |-> "setText", text |-> d0.text,
                                          elided |-> TRUE]]
              ELSE d0
    IN IF d0.wrap \/ d0.elideMode # "ElideNone"
       THEN updateSize(Run([d1 EXCEPT !.imgDirty = TRUE]))
       ELSE Run(d0)

\* QmlGraphicsText::componentComplete()
componentComplete(d) ==
    LET d1 == [d EXCEPT !.complete = TRUE]
    IN IF d.dirty
       THEN [updateLayout(Run(d1)) EXCEPT !.d.dirty = FALSE]
       ELSE Run(d1)

\* QmlGraphicsTextPrivate::checkImgCache()
checkImgCache(d) == [d EXCEPT !.imgDirty = FALSE]

\* what anchorAt(event->pos()) can answer when the handlers get to ask
AnchorsAt(d) ==
    IF d.richText /\ d.doc.exists
    THEN anchors(d.doc.html) \cup {<<>>}
    ELSE {<<>>}

\* QmlGraphicsText::mousePressEvent(event); anchor is what
\* documentLayout()->anchorAt(event->pos()) answers
mousePressEvent(d, anchor) ==
    IF ~d.richText \/ ~d.doc.exists \/ anchor = <<>>
    THEN [d |-> [d EXCEPT !.activeLink = <<>>], accepted |-> FALSE]
    ELSE [d |-> [d EXCEPT !.activeLink = anchor], accepted |-> TRUE]

\* QmlGraphicsText::mouseReleaseEvent(event)
mouseReleaseEvent(d, anchor) ==
    IF d.richText /\ d.doc.exists /\ d.activeLink = anchor
    THEN [emitted |-> <<d.activeLink>>, accepted |-> TRUE]
    ELSE [emitted |-> <<>>, accepted |-> FALSE]

\* ------------------------------------------------------------ operations
\* everything but the Text item, after construction
InitObjects ==
    /\ hostState = [h \in Hosts |-> "alive"]
    /\ declarativeData = [h \in Hosts |-> NULL]
    /\ heap = [d \in DataIds |-> Unallocated]
    /\ nAlloc = 0
    /\ guard = [g \in Guards |-> NewGuard]
    /\ contextObjects = [c \in Contexts |-> NULL]
    /\ binding = [b \in Bindings |-> NewBinding]
    /\ pc = Idle
    /\ last = NoCall
    /\ fault = FALSE
    /\ scriptClass = NewScriptClass
    /\ factory = NoFactoryCalls
    /\ lookup = NoLookup

Init ==
    /\ InitObjects
    /\ textItem = NewText(TRUE)
    /\ textCall = NoTextCall

\* a Text item after construction, dirty being set or not
InitText ==
    /\ InitObjects
    /\ textItem \in {NewText(dirty) : dirty \in BOOLEAN}
    /\ textCall = NoTextCall

Ready == pc = Idle /\ ~fault

SetMem(m) ==
    /\ guard' = m.gd
    /\ heap' = m.hp
    /\ declarativeData' = m.dd
    /\ nAlloc' = m.na
    /\ fault' = m.ft

\* Registry.get(host, createIfAbsent)
Get(h, create) ==
    /\ Ready
    /\ hostState[h] = "alive"
    /\ Allocates(Mem, h, create) => nAlloc < MaxData
    /\ LET r == get(Mem, h, create)
       IN /\ SetMem(r.m)
          /\ last' = [NoCall EXCEPT !.op = "get", !.h = h, !.create = create,
                                    !.ret = r.ret,
                                    !.fresh = Allocates(Mem, h, create)]
    /\ UNCHANGED resolverVars
    /\ UNCHANGED textVars
    /\ UNCHANGED <<hostState, contextObjects, binding, pc>>

\* register(host, guard), the guard not being in a list: the guard's target
\* is set to the host and addGuard links it
Register(h, g) ==
    /\ Ready
    /\ hostState[h] = "alive"
    /\ ~Linked(g)
    /\ Allocates(Mem, h, TRUE) => nAlloc < MaxData
    /\ SetMem(addGuard(setObject(Mem, g, h), g))
    /\ last' = [NoCall EXCEPT !.op = "register", !.h = h, !.g = g]
    /\ UNCHANGED resolverVars
    /\ UNCHANGED textVars
    /\ UNCHANGED <<hostState, contextObjects, binding, pc>>

\* unregister(guard), the guard being in a list: remGuard unlinks it and the
\* guard's target becomes absent (as retarget to absent leaves it)
Unregister(g) ==
    /\ Ready
    /\ Linked(g)
    /\ \E ub \in UBOutcomes :
          LET m == remGuard(Mem, g, ub)
          IN SetMem(IF m.ft THEN m ELSE setObject(m, g, NULL))
    /\ last' = [NoCall EXCEPT !.op = "unregister", !.g = g]
    /\ UNCHANGED resolverVars
    /\ UNCHANGED textVars
    /\ UNCHANGED <<hostState, contextObjects, binding, pc>>

\* retarget(guard, newHostOrAbsent), first half: unregister
RetargetUnregister(g) ==
    /\ Ready
    /\ \E ub \in UBOutcomes :
          LET m == IF Linked(g) THEN remGuard(Mem, g, ub) ELSE Mem
          IN SetMem(IF m.ft THEN m ELSE setObject(m, g, NULL))
    /\ pc' = [Idle EXCEPT !.op = "retarget", !.g = g, !.phase = "register",
                           !.from = guard[g].o]
    /\ UNCHANGED resolverVars
    /\ UNCHANGED textVars
    /\ UNCHANGED <<hostState, contextObjects, binding, last>>

\* retarget(guard, newHostOrAbsent), second half: register unless absent
RetargetRegister(nh) ==
    /\ pc.op = "retarget"
    /\ ~fault
    /\ nh # NULL => hostState[nh] = "alive"
    /\ (nh # NULL /\ Allocates(Mem, nh, TRUE)) => nAlloc < MaxData
    /\ SetMem(IF nh # NULL THEN addGuard(setObject(Mem, pc.g, nh), pc.g)
              ELSE Mem)
    /\ pc' = Idle
    /\ last' = [NoCall EXCEPT !.op = "retarget", !.h = nh, !.g = pc.g,
                              !.from = pc.from]
    /\ UNCHANGED resolverVars
    /\ UNCHANGED textVars
    /\ UNCHANGED <<hostState, contextObjects, binding>>


\* onHostDestroyed(host): entry. Without a side table it is a no-op.
DestroyBegin(h) ==
    /\ Ready
    /\ hostState[h] = "alive"
    /\ IF declarativeData[h] = NULL
       THEN /\ hostState' = [hostState EXCEPT ![h] = "destroyed"]
            /\ last' = [NoCall EXCEPT !.op = "onHostDestroyed", !.h = h]
            /\ pc' = pc
       ELSE /\ hostState' = [hostState EXCEPT ![h] = "destroying"]
            /\ pc' = [Idle EXCEPT !.op = "destroy", !.h = h, !.phase = "guards",
                         !.gs = {g \in Guards : guard[g].o = h}
                                \cup Range(GuardList(declarativeData[h]))]
            /\ last' = last
    /\ UNCHANGED resolverVars
    /\ UNCHANGED textVars
    /\ UNCHANGED <<declarativeData, heap, nAlloc, guard, contextObjects, binding,
                   fault>>

\* onHostDestroyed step (a): null and unlink every guard
DestroyGuards ==
    /\ pc.op = "destroy" /\ pc.phase = "guards" /\ ~fault
    /\ LET d == declarativeData[pc.h]
       IN /\ guard' = NullGuards(guard, heap[d].guards)
          /\ heap' = [heap EXCEPT ![d].guards = NULL]
    /\ pc' = [pc EXCEPT !.phase = "bindings"]
    /\ UNCHANGED resolverVars
    /\ UNCHANGED textVars
    /\ UNCHANGED <<hostState, declarativeData, nAlloc, contextObjects, binding,
                   last, fault>>

\* onHostDestroyed step (b): detach every binding, signalling its owner
DestroyBindings ==
    /\ pc.op = "destroy" /\ pc.phase = "bindings" /\ ~fault
    /\ LET d == declarativeData[pc.h]
       IN /\ binding' = DetachAll(binding, d)
          /\ heap' = [heap EXCEPT ![d].bindings = <<>>, ![d].bindingBits = {}]
    /\ pc' = [pc EXCEPT !.phase = "context",
                         !.bs = {b \in Bindings :
                                   binding[b].owner = declarativeData[pc.h]}]
    /\ UNCHANGED resolverVars
    /\ UNCHANGED textVars
    /\ UNCHANGED <<hostState, declarativeData, nAlloc, guard, contextObjects,
                   last, fault>>

\* onHostDestroyed step (c): unlink from the context's object list
DestroyContext ==
    /\ pc.op = "destroy" /\ pc.phase = "context" /\ ~fault
    /\ LET r == unlink(heap, contextObjects, declarativeData[pc.h])
       IN /\ heap' = r.hp
          /\ contextObjects' = r.co
    /\ pc' = [pc EXCEPT !.phase = "free"]
    /\ UNCHANGED resolverVars
    /\ UNCHANGED textVars
    /\ UNCHANGED <<hostState, declarativeData, nAlloc, guard, binding, last,
                   fault>>

\* onHostDestroyed step (e): release the side table; the host is gone
DestroyFree ==
    /\ pc.op = "destroy" /\ pc.phase = "free" /\ ~fault
    /\ heap' = [heap EXCEPT ![declarativeData[pc.h]].alloc = "freed"]
    /\ hostState' = [hostState EXCEPT ![pc.h] = "destroyed"]
    /\ last' = [NoCall EXCEPT !.op = "onHostDestroyed", !.h = pc.h, !.gs = pc.gs,
                              !.bs = pc.bs]
    /\ pc' = Idle
    /\ UNCHANGED resolverVars
    /\ UNCHANGED textVars
    /\ UNCHANGED <<declarativeData, nAlloc, guard, contextObjects, binding,
                   fault>>

\* the engine links a host's side table into the host's declared context
SetContext(h) ==
    /\ Ready
    /\ hostState[h] = "alive"
    /\ declarativeData[h] # NULL
    /\ heap[declarativeData[h]].prevContextObject = NullSlot
    /\ LET r == link(heap, contextObjects, HostContext(h), declarativeData[h])
       IN /\ heap' = r.hp
          /\ contextObjects' = r.co
    /\ last' = [NoCall EXCEPT !.op = "link", !.h = h]
    /\ UNCHANGED resolverVars
    /\ UNCHANGED textVars
    /\ UNCHANGED <<hostState, declarativeData, nAlloc, guard, binding, pc, fault>>

\* attach(sideTable of h, slot i, binding b), b not being attached anywhere
Attach(h, i, b) ==
    /\ Ready
    /\ hostState[h] = "alive"
    /\ declarativeData[h] # NULL
    /\ binding[b].owner = NULL
    /\ LET r == attach(heap, binding, declarativeData[h], i, b)
       IN /\ heap' = r.hp
          /\ binding' = r.bd
          /\ last' = [NoCall EXCEPT !.op = "attach", !.h = h, !.g = b, !.ret = i,
                                    !.bs = r.superseded]
    /\ UNCHANGED resolverVars
    /\ UNCHANGED textVars
    /\ UNCHANGED <<hostState, declarativeData, nAlloc, guard, contextObjects, pc,
                   fault>>

\* detach(sideTable of h, slot i)
Detach(h, i) ==
    /\ Ready
    /\ hostState[h] = "alive"
    /\ declarativeData[h] # NULL
    /\ LET r == detach(heap, binding, declarativeData[h], i)
       IN /\ heap' = r.hp
          /\ binding' = r.bd
          /\ last' = [NoCall EXCEPT !.op = "detach", !.h = h, !.g = r.ret,
                                    !.ret = i]
    /\ UNCHANGED resolverVars
    /\ UNCHANGED textVars
    /\ UNCHANGED <<hostState, declarativeData, nAlloc, guard, contextObjects, pc,
                   fault>>

\* queryProperty(obj, name, flags) on the script class, the script engine
\* starting a property access; env is what the collaborators answer during
\* the call
QueryProperty(data, name, env) ==
    /\ Ready
    /\ lookup.op = "none"
    /\ data.object # NULL =>
          /\ hostState[data.object] = "alive"
          /\ nAlloc < MaxData
          /\ data.type # NULL => factory.made[data.object][data.type] < MaxMade
    /\ LET r == queryProperty(scriptClass, Mem, factory, data, name, env)
       IN /\ SetMem(r.m)
          /\ scriptClass' = r.sc
          /\ factory' = r.f
          /\ lookup' = [NoLookup EXCEPT !.op = "queryProperty", !.data = data,
                                        !.name = name, !.d = env.d,
                                        !.metaObject = env.metaObject,
                                        !.called = r.called,
                                        !.made = r.called /\ env.made,
                                        !.flags = r.flags, !.target = r.target]
    /\ UNCHANGED <<hostState, contextObjects, binding, pc, last>>
    /\ UNCHANGED textVars

\* queryProperty on a namespace; d is the namespace's entry for the name
QueryNamespace(data, name, d) ==
    /\ data \in NamespaceSubjects
    /\ QueryProperty(data, name, [DefaultEnv EXCEPT !.d = d])

\* queryProperty on a type with a name that starts in upper case; metaObject
\* is the meta object of the type
QueryEnum(data, name, metaObject) ==
    /\ data \in TypeSubjects
    /\ isUpper(name[1])
    /\ QueryProperty(data, name, [DefaultEnv EXCEPT !.metaObject = metaObject])

\* queryProperty on a type with any other name; made and handles are the
\* answers of the attached-properties function and of the generic accessor
QueryAttached(data, name, made, handles) ==
    /\ data \in TypeSubjects
    /\ ~isUpper(name[1])
    /\ QueryProperty(data, name, [DefaultEnv EXCEPT !.made = made,
                                                    !.handles = handles])

\* property(obj, name), which the script engine calls after a queryProperty
\* that reported read access
Property(junk) ==
    /\ Ready
    /\ lookup.op = "queryProperty"
    /\ HandlesReadAccess \in lookup.flags
    /\ LET r == property(scriptClass, lookup.data, junk)
       IN lookup' = [lookup EXCEPT !.op = "property", !.result = r.result,
                                   !.target = r.target]
    /\ UNCHANGED <<hostState, declarativeData, heap, nAlloc, guard,
                   contextObjects, binding, pc, last, fault, scriptClass,
                   factory>>
    /\ UNCHANGED textVars

\* setProperty(obj, name, value), which the script engine calls after a
\* queryProperty that reported write access
SetProperty ==
    /\ Ready
    /\ lookup.op = "queryProperty"
    /\ HandlesWriteAccess \in lookup.flags
    /\ lookup' = [lookup EXCEPT !.op = "setProperty",
                                !.target = setProperty(scriptClass, lookup.data)]
    /\ UNCHANGED <<hostState, declarativeData, heap, nAlloc, guard,
                   contextObjects, binding, pc, last, fault, scriptClass,
                   factory>>
    /\ UNCHANGED textVars

\* the script engine is done with the property access it started
EndAccess ==
    /\ Ready
    /\ lookup.op # "none"
    /\ lookup' = NoLookup
    /\ UNCHANGED <<hostState, declarativeData, heap, nAlloc, guard,
                   contextObjects, binding, pc, last, fault, scriptClass,
                   factory>>
    /\ UNCHANGED textVars

\* the calls on the Text item leave everything else alone
TextCall(r, op) ==
    /\ textItem' = r.d
    /\ textCall' = [NoTextCall EXCEPT !.op = op,
                                      !.updateLayout = r.updateLayout,
                                      !.updateSize = r.updateSize,
                                      !.pressed = textCall.pressed]
    /\ UNCHANGED resolverVars
    /\ UNCHANGED <<hostState, declarativeData, heap, nAlloc, guard,
                   contextObjects, binding, pc, last, fault>>

SetText(n) == TextCall(setText(textItem, n), "setText")

SetTextFormat(format) ==
    TextCall(setTextFormat(textItem, format), "setTextFormat")

SetWrap(w) == TextCall(setWrap(textItem, w), "setWrap")

SetElideMode(mode) == TextCall(setElideMode(textItem, mode), "setElideMode")

GeometryChanged(widthValid) ==
    TextCall(geometryChanged(textItem, widthValid), "geometryChanged")

\* the engine completes the component, once
ComponentComplete ==
    /\ ~textItem.complete
    /\ TextCall(componentComplete(textItem), "componentComplete")

\* paint() brings the image cache up to date
CheckImgCache ==
    /\ textItem.imgDirty
    /\ TextCall(Run(checkImgCache(textItem)), "paint")

MousePressEvent(anchor) ==
    LET r == mousePressEvent(textItem, anchor)
    IN /\ textItem' = r.d
       /\ textCall' = [NoTextCall EXCEPT !.op = "mousePressEvent",
                                         !.accepted = r.accepted,
                                         !.anchor = anchor,
                                         !.pressed = anchor]
       /\ UNCHANGED resolverVars
       /\ UNCHANGED <<hostState, declarativeData, heap, nAlloc, guard,
                      contextObjects, binding, pc, last, fault>>

\* a release comes after a press
MouseReleaseEvent(anchor) ==
    LET r == mouseReleaseEvent(textItem, anchor)
    IN /\ textCall.pressed # NoPress
       /\ textItem' = textItem
       /\ textCall' = [NoTextCall EXCEPT !.op = "mouseReleaseEvent",
                                         !.accepted = r.accepted,
                                         !.emitted = r.emitted,
                                         !.anchor = anchor,
                                         !.pressed = textCall.pressed]
       /\ UNCHANGED resolverVars
       /\ UNCHANGED <<hostState, declarativeData, heap, nAlloc, guard,
                      contextObjects, binding, pc, last, fault>>

\* ---------------------------------------- calls outside the guard contract
\* unregister(guard) on a guard that is in no list: remGuard with prev null
UnregisterUnlinked(g) ==
    /\ Ready
    /\ ~Linked(g)
    /\ \E ub \in UBOutcomes :
          LET m == remGuard(Mem, g, ub)
          IN SetMem(IF m.ft THEN m ELSE setObject(m, g, NULL))
    /\ last' = [NoCall EXCEPT !.op = "unregister", !.g = g]
    /\ UNCHANGED resolverVars
    /\ UNCHANGED textVars
    /\ UNCHANGED <<hostState, contextObjects, binding, pc>>

\* register(host, guard) on a guard that is still in a list
RegisterLinked(h, g) ==
    /\ Ready
    /\ hostState[h] = "alive"
    /\ Linked(g)
    /\ Allocates(Mem, h, TRUE) => nAlloc < MaxData
    /\ SetMem(addGuard(setObject(Mem, g, h), g))
    /\ last' = [NoCall EXCEPT !.op = "register", !.h = h, !.g = g]
    /\ UNCHANGED resolverVars
    /\ UNCHANGED textVars
    /\ UNCHANGED <<hostState, contextObjects, binding, pc>>

\* register(host, guard) issued from a notification while onHostDestroyed(host)
\* is in progress
RegisterDuringTeardown(g) ==
    /\ pc.op = "destroy"
    /\ ~fault
    /\ ~Linked(g)
    /\ SetMem(addGuard(setObject(Mem, g, pc.h), g))
    /\ last' = [NoCall EXCEPT !.op = "register", !.h = pc.h, !.g = g]
    /\ UNCHANGED resolverVars
    /\ UNCHANGED textVars
    /\ UNCHANGED <<hostState, contextObjects, binding, pc>>

\* ------------------------------------------------------- specifications
GetCalls == \E h \in Hosts, create \in BOOLEAN : Get(h, create)
GuardCalls ==
    \/ \E h \in Hosts, g \in Guards : Register(h, g)
    \/ \E g \in Guards : Unregister(g)
RetargetCalls ==
    \/ \E g \in Guards : RetargetUnregister(g)
    \/ \E nh \in Hosts \cup {NULL} : RetargetRegister(nh)
Teardown ==
    \/ \E h \in Hosts : DestroyBegin(h)
    \/ DestroyGuards
    \/ DestroyBindings
    \/ DestroyContext
    \/ DestroyFree
ContextCalls == \E h \in Hosts : SetContext(h)
BindingCalls ==
    \/ \E h \in Hosts, i \in Slots, b \in Bindings : Attach(h, i, b)
    \/ \E h \in Hosts, i \in Slots : Detach(h, i)

\* the registry and the guards, every call made within its contract
Next ==
    \/ GetCalls
    \/ GuardCalls
    \/ RetargetCalls
    \/ Teardown

Spec == Init /\ [][Next]_vars

\* the registry and the context object lists alone
NextRegistry ==
    \/ GetCalls
    \/ ContextCalls
    \/ Teardown

SpecRegistry == Init /\ [][NextRegistry]_vars

\* hosts with guards, bindings and a context, and their teardown
NextTeardown ==
    \/ GetCalls
    \/ GuardCalls
    \/ Teardown
    \/ ContextCalls
    \/ BindingCalls

SpecTeardown == Init /\ [][NextTeardown]_vars

\* the binding lists and bits of the side tables
NextBindings ==
    \/ GetCalls
    \/ BindingCalls
    \/ Teardown

SpecBindings == Init /\ [][NextBindings]_vars

\* name resolution against namespaces and against the enumerators of types
NextResolve ==
    \/ \E data \in NamespaceSubjects, name \in Identifiers, d \in CacheData :
          QueryNamespace(data, name, d)
    \/ \E data \in TypeSubjects, name \in Identifiers, metaObject \in MetaObjects :
          QueryEnum(data, name, metaObject)
    \/ \E junk \in EnumValues : Property(junk)
    \/ EndAccess

SpecResolve == Init /\ [][NextResolve]_vars

\* name resolution against types with hosts in scope: attached objects
NextAttached ==
    \/ \E data \in TypeSubjects, name \in Identifiers, made \in BOOLEAN,
          handles \in QueryFlags :
          QueryAttached(data, name, made, handles)
    \/ \E junk \in EnumValues : Property(junk)
    \/ SetProperty
    \/ EndAccess

SpecAttached == Init /\ [][NextAttached]_vars

\* lookups of every kind, one after another, on the one script class; the
\* object in scope, if any, is the first host
InScope == {NULL, 1}

NextLookups ==
    \/ \E data \in NamespaceSubjects, name \in Identifiers, d \in CacheData :
          /\ data.object \in InScope
          /\ QueryNamespace(data, name, d)
    \/ \E data \in TypeSubjects, name \in Identifiers, metaObject \in MetaObjects :
          /\ data.object \in InScope
          /\ QueryEnum(data, name, metaObject)
    \/ \E data \in TypeSubjects, name \in Identifiers, made \in BOOLEAN,
          handles \in QueryFlags :
          /\ data.object \in InScope
          /\ QueryAttached(data, name, made, handles)
    \/ \E junk \in EnumValues : Property(junk)
    \/ EndAccess

SpecLookups == Init /\ [][NextLookups]_vars

\* the life of a side table: guards come, move and go, bindings come and
\* go, hosts are destroyed
NextLifecycle ==
    \/ GetCalls
    \/ GuardCalls
    \/ RetargetCalls
    \/ BindingCalls
    \/ Teardown

SpecLifecycle == Init /\ [][NextLifecycle]_vars

\* register and unregister calls alone, each within its contract
NextGuards ==
    \/ GetCalls
    \/ GuardCalls

SpecGuards == Init /\ [][NextGuards]_vars

\* the properties of a Text item are set, its geometry changes, it is
\* painted, and its component is completed
NextText ==
    \/ \E n \in Texts : SetText(n)
    \/ \E format \in TextFormats : SetTextFormat(format)
    \/ \E w \in BOOLEAN : SetWrap(w)
    \/ \E mode \in ElideModes : SetElideMode(mode)
    \/ \E widthValid \in BOOLEAN : GeometryChanged(widthValid)
    \/ ComponentComplete
    \/ CheckImgCache

SpecText == InitText /\ [][NextText]_vars

\* a Text item gets texts and formats, and mouse presses and releases
NextLinks ==
    \/ \E n \in Texts : SetText(n)
    \/ \E format \in TextFormats : SetTextFormat(format)
    \/ \E anchor \in AnchorsAt(textItem) : MousePressEvent(anchor)
    \/ \E anchor \in AnchorsAt(textItem) : MouseReleaseEvent(anchor)

SpecLinks == InitText /\ [][NextLinks]_vars

\* unregister may be called on any guard, linked or not
NextUnregisterAny ==
    \/ GetCalls
    \/ GuardCalls
    \/ RetargetCalls
    \/ Teardown
    \/ \E g \in Guards : UnregisterUnlinked(g)

SpecUnregisterAny == Init /\ [][NextUnregisterAny]_vars

\* register may be called on any guard, linked or not
NextRegisterAny ==
    \/ GuardCalls
    \/ \E h \in Hosts, g \in Guards : RegisterLinked(h, g)

SpecRegisterAny == Init /\ [][NextRegisterAny]_vars

\* notifications sent during a teardown may register guards on the dying host
NextReentrant ==
    \/ GetCalls
    \/ GuardCalls
    \/ Teardown
    \/ \E g \in Guards : RegisterDuringTeardown(g)

SpecReentrant == Init /\ [][NextReentrant]_vars


\* ------------------------------------------------------------ step names
\* the step is a completed get(h, ...)
GetStep(h) ==
    pc = Idle /\ pc' = Idle /\ last'.op = "get" /\ last'.h = h

\* the step is a completed register(h, g)
RegisterStep(h, g) ==
    pc = Idle /\ pc' = Idle /\ last'.op = "register" /\ last'.h = h /\ last'.g = g

\* the step is a completed unregister(g)
UnregisterStep(g) ==
    pc = Idle /\ pc' = Idle /\ last'.op = "unregister" /\ last'.g = g

\* the side tables that exist or existed
Allocated == {d \in DataIds : heap[d].alloc # "none"}

NoDuplicates(s) == \A i, j \in 1..Len(s) : s[i] = s[j] => i = j

\* ---------------------------------------------------------------- claims

\* C1: when onHostDestroyed(H) has completed, every guard that was registered
\* on H has target() absent and is linked into no GuardList, however many
\* guards and bindings H had.
C1_GuardsInvalidated ==
    last.op = "onHostDestroyed" =>
        \A g \in last.gs :
            /\ target(g) = NULL
            /\ guard[g].next = NULL
            /\ ~Linked(g)
            /\ ListsOf(g) = {}

C1_Witness ==
    /\ last.op = "onHostDestroyed"
    /\ Cardinality(last.gs) >= 2
    /\ Cardinality(last.bs) >= 2
    /\ \E g \in Guards : target(g) # NULL

C3_GetIdempotent ==
    [][\A h \in Hosts :
        /\ (declarativeData[h] = NULL /\ declarativeData'[h] # NULL) =>
              /\ last'.h = h
              /\ \/ last'.op = "get" /\ last'.create
                 \/ last'.op \in {"register", "retarget"}
        /\ GetStep(h) =>
              /\ last'.ret = declarativeData'[h]
              /\ (declarativeData[h] = NULL /\ ~last'.create) =>
                    /\ last'.ret = NULL
                    /\ nAlloc' = nAlloc
                    /\ heap' = heap
              /\ declarativeData[h] # NULL =>
                    /\ last'.ret = declarativeData[h]
                    /\ nAlloc' = nAlloc
                    /\ heap' = heap
        /\ declarativeData[h] # NULL => declarativeData'[h] = declarativeData[h]
      ]_vars

C3_Witness ==
    /\ last.op = "get"
    /\ ~last.create
    /\ last.ret # NULL
    /\ \E h \in Hosts : h # last.h /\ declarativeData[h] = NULL

C5_RegisterAtHead ==
    [][\A h \in Hosts, g \in Guards :
        (RegisterStep(h, g) /\ ~Linked(g)) =>
            LET d0 == declarativeData[h]
                d == declarativeData'[h]
                old == IF d0 = NULL THEN NULL ELSE heap[d0].guards
                oldList == IF d0 = NULL THEN <<>> ELSE GuardList(d0)
            IN /\ d # NULL
               /\ heap'[d].alloc = "live"
               /\ d0 # NULL => d = d0 /\ nAlloc' = nAlloc
               /\ d0 = NULL => nAlloc' = nAlloc + 1 /\ heap[d].alloc = "none"
               /\ heap'[d].guards = g
               /\ guard'[g].o = h
               /\ guard'[g].next = old
               /\ guard'[g].prev = GuardsSlot(d)
               /\ old # NULL => guard'[old].prev = NextSlot(g)
               /\ GuardListIn(Mem', d) = <<g>> \o oldList
      ]_vars

C5_Witness ==
    /\ last.op = "register"
    /\ guard[last.g].next # NULL
    /\ guard[guard[last.g].next].next # NULL


\* g is in the GuardList of at most one side table
InAtMostOneList(g) == Cardinality(ListsOf(g)) <= 1

\* C6 as stated: unregister(guard) takes the guard out of its list, and on a
\* guard that is in no list it completes without a fault and changes nothing.
C6_UnregisterSafe ==
    [][\A g \in Guards :
        UnregisterStep(g) =>
            /\ ~fault'
            /\ guard'[g].prev = NullSlot
            /\ ListsOf(g)' = {}
            /\ ~Linked(g) =>
                  /\ guard' = guard
                  /\ heap' = heap
                  /\ declarativeData' = declarativeData
      ]_vars

\* C7 as stated: each guard is in at most one host's GuardList and at most
\* once in it, also after register on a guard that is already registered.
C7_AtMostOneList ==
    /\ \A g \in Guards : InAtMostOneList(g)
    /\ \A d \in DataIds : NoDuplicates(GuardList(d))

\* C8: retarget(guard, newHost) takes the guard out of its old list, leaving
\* the other guards of that list linked in their order, and then puts it at
\* the head of newHost's list with target() = newHost; retarget(guard, absent)
\* leaves it in no list with target() absent; in no state, the one between the
\* two halves included, is a guard in two lists.
C8_Retarget ==
    /\ [][(pc = Idle /\ pc'.op = "retarget") =>
            LET g == pc'.g
            IN /\ guard'[g] = NewGuard
               /\ \A d \in DataIds :
                     /\ GuardListIn(Mem', d) = SeqWithout(GuardList(d), g)
                     /\ heap'[d].alloc = heap[d].alloc
         ]_vars
    /\ [][(pc.op = "retarget" /\ pc' = Idle) =>
            LET g == pc.g
                nh == last'.h
            IN IF nh = NULL
               THEN /\ guard'[g] = NewGuard
                    /\ \A d \in DataIds : GuardListIn(Mem', d) = GuardList(d)
               ELSE LET d0 == declarativeData[nh]
                        dn == declarativeData'[nh]
                    IN /\ dn # NULL
                       /\ d0 # NULL => dn = d0
                       /\ guard'[g].o = nh
                       /\ heap'[dn].guards = g
                       /\ guard'[g].prev = GuardsSlot(dn)
                       /\ GuardListIn(Mem', dn) = <<g>> \o GuardList(dn)
                       /\ \A d \in DataIds \ {dn} :
                             GuardListIn(Mem', d) = GuardList(d)
         ]_vars
    /\ [](\A g \in Guards : InAtMostOneList(g))

C8_Witness ==
    /\ last.op = "retarget"
    /\ last.h # NULL
    /\ last.from # NULL
    /\ last.from # last.h
    /\ guard[last.g].next # NULL
    /\ hostState[last.from] = "alive"
    /\ heap[declarativeData[last.from]].guards # NULL

C10_RegistrationRejected ==
    [][\A g \in Guards :
        (pc.op = "destroy" /\ pc' = pc /\ last'.op = "register" /\ last'.g = g
         /\ ~Linked(g)) =>
            /\ guard'[g].prev = NullSlot
            /\ guard'[g].o = NULL
            /\ nAlloc' = nAlloc
      ]_vars

\* the bindings in the BindingList of side table d that occupy slot i
BindingsForSlot(hp, bd, d, i) ==
    {k \in 1..Len(hp[d].bindings) : bd[hp[d].bindings[k]].slot = i}

\* C11: for every live side table S and slot i, hasBinding(S, i) is true
\* exactly when S's BindingList holds a binding for slot i, the list never
\* holds two bindings for one slot, and a binding is in the list of the side
\* table that owns it and in no other.
C11_BitsMatchBindings ==
    \A d \in DataIds :
        heap[d].alloc = "live" =>
            /\ \A i \in Slots :
                  /\ hasBindingBit(heap, d, i)
                        <=> (BindingsForSlot(heap, binding, d, i) # {})
                  /\ Cardinality(BindingsForSlot(heap, binding, d, i)) <= 1
            /\ NoDuplicates(heap[d].bindings)
            /\ \A b \in Bindings :
                  (binding[b].owner = d) <=> (b \in Range(heap[d].bindings))

C11_Witness ==
    /\ last.op = "detach"
    /\ last.g # NULL
    /\ \E d \in DataIds, i \in Slots :
          /\ heap[d].alloc = "live"
          /\ hasBindingBit(heap, d, i)
          /\ ~hasBindingBit(heap, d, last.ret)
          /\ d = declarativeData[last.h]

\* C12: attach(S, i, b2) on a slot that attach(S, i, b1) had bound leaves
\* hasBinding(S, i) true and b2 the only binding of S's list for slot i; b1
\* is detached, out of the list, and is the one binding signalled
\* "superseded".
C12_AttachSupersedes ==
    [][\A h \in Hosts, i \in Slots, b2 \in Bindings :
        (/\ pc = Idle /\ pc' = Idle
         /\ last'.op = "attach" /\ last'.h = h /\ last'.ret = i /\ last'.g = b2
         /\ binding[b2].owner = NULL /\ binding'[b2].owner # NULL
         /\ hasBindingBit(heap, declarativeData[h], i)) =>
            LET d == declarativeData[h]
                b1 == BindingFor(binding, d, i)
            IN /\ b1 # NULL
               /\ b1 # b2
               /\ hasBindingBit(heap', d, i)
               /\ {heap'[d].bindings[k] :
                      k \in BindingsForSlot(heap', binding', d, i)} = {b2}
               /\ Head(heap'[d].bindings) = b2
               /\ binding'[b2] = [owner |-> d, slot |-> i]
               /\ binding'[b1] = NewBinding
               /\ b1 \notin Range(heap'[d].bindings)
               /\ last'.bs = {b1}
      ]_vars

C12_Witness ==
    /\ last.op = "attach"
    /\ last.bs # {}
    /\ hasBindingBit(heap, declarativeData[last.h], last.ret)
    /\ \A b \in last.bs : binding[b] = NewBinding
    /\ \E h \in Hosts : h # last.h /\ declarativeData[h] # NULL

\* the side tables of hosts that are alive whose owning context is c
LiveIn(c) ==
    {declarativeData[h] : h \in {x \in Hosts : /\ hostState[x] = "alive"
                                               /\ declarativeData[x] # NULL
                                               /\ heap[declarativeData[x]].context = c}}

QueryStep == lookup.op = "none" /\ lookup'.op = "queryProperty"

\* what resolve(identifier, subject, hostInScope) yields, queryProperty
\* having been called: unresolved when it reports nothing handled, else what
\* property() returns
Resolution ==
    IF lookup.flags = {}
    THEN [kind |-> "unresolved", value |-> 0]
    ELSE property(scriptClass, lookup.data, 0).result

\* the step leaves side tables and attached objects as they are
NoSideEffect ==
    /\ heap' = heap
    /\ declarativeData' = declarativeData
    /\ nAlloc' = nAlloc
    /\ factory' = factory
    /\ ~lookup'.called

\* the enumerators of a meta object that declare a key
Declaring(metaObject, key) ==
    {ii \in 1..Len(metaObject) : key \in DOMAIN metaObject[ii]}

\* the greatest element of a non-empty set of numbers
Greatest(S) == CHOOSE x \in S : \A y \in S : y <= x

\* C14: with a namespace as subject, resolve yields a type reference (to the
\* member's type) exactly when the namespace has the identifier and the
\* member is a type, and is unresolved otherwise; no enumerator is looked up
\* (enumValue keeps its value) and no attached object is looked up or made.
C14_NamespaceResolution ==
    [][(QueryStep /\ lookup'.data.typeNamespace # NULL) =>
          /\ (Resolution'.kind = "type reference")
                <=> (lookup'.d.found /\ lookup'.d.type # NULL)
          /\ Resolution'.kind = "type reference" =>
                Resolution'.value = lookup'.d.type
          /\ Resolution'.kind \in {"type reference", "unresolved"}
          /\ NoSideEffect
          /\ scriptClass'.enumValue = scriptClass.enumValue
          /\ scriptClass'.assigned = scriptClass.assigned
          /\ scriptClass'.object = NULL
          /\ lookup'.target = NULL
      ]_vars

C14_Witness ==
    /\ lookup.op = "queryProperty"
    /\ lookup.data.typeNamespace # NULL
    /\ lookup.data.object # NULL
    /\ lookup.name = foo
    /\ lookup.d.found
    /\ lookup.d.type = NULL
    /\ scriptClass.assigned

\* C15 as stated: for a type as subject and a name in upper case that
\* several enumerators of the type declare, resolve yields the value the most
\* derived of those enumerators gives the key.
C15_MostDerivedWins ==
    [][(/\ QueryStep
        /\ lookup'.data.type # NULL
        /\ lookup'.data.mode = "IncludeEnums"
        /\ isUpper(lookup'.name[1])
        /\ Cardinality(Declaring(lookup'.metaObject, lookup'.name)) >= 2) =>
          LET ii == Greatest(Declaring(lookup'.metaObject, lookup'.name))
          IN Resolution' = [kind |-> "enum value",
                            value |-> lookup'.metaObject[ii][lookup'.name]]
      ]_vars

\* C16 as stated: for a type as subject and a name in upper case that some
\* enumerator of the type declares, resolve yields an enum value, the value
\* an enumerator gives the key, whatever that value is.
C16_EnumValueResolved ==
    [][(/\ QueryStep
        /\ lookup'.data.type # NULL
        /\ lookup'.data.mode = "IncludeEnums"
        /\ isUpper(lookup'.name[1])
        /\ Declaring(lookup'.metaObject, lookup'.name) # {}) =>
          /\ Resolution'.kind = "enum value"
          /\ Resolution'.value \in
                {lookup'.metaObject[ii][lookup'.name] :
                    ii \in Declaring(lookup'.metaObject, lookup'.name)}
      ]_vars

\* C17: for a type as subject and a name in upper case, resolve has no side
\* effect: no attached object is looked up or made and no side table is
\* created, also with a host in scope; and when no enumerator declares the
\* name the result is unresolved.
C17_UppercaseNoSideEffect ==
    [][(/\ QueryStep
        /\ lookup'.data.type # NULL
        /\ isUpper(lookup'.name[1])) =>
          /\ NoSideEffect
          /\ scriptClass'.object = NULL
          /\ lookup'.target = NULL
          /\ Declaring(lookup'.metaObject, lookup'.name) = {} =>
                /\ Resolution'.kind = "unresolved"
                /\ scriptClass'.enumValue = scriptClass.enumValue
      ]_vars

C17_Witness ==
    /\ lookup.op = "queryProperty"
    /\ lookup.data.type # NULL
    /\ lookup.data.object # NULL
    /\ lookup.data.mode = "IncludeEnums"
    /\ lookup.name = Bar
    /\ Len(lookup.metaObject) = MaxEnums
    /\ \A ii \in 1..Len(lookup.metaObject) : Foo \in DOMAIN lookup.metaObject[ii]
    /\ lookup.flags = {}
    /\ declarativeData[lookup.data.object] = NULL

\* the step is a queryProperty call with type t as subject, host h in scope
\* and a name that does not start in upper case
AttachedStep(h, t) ==
    /\ QueryStep
    /\ lookup'.data.type = t
    /\ lookup'.data.object = h
    /\ ~isUpper(lookup'.name[1])

\* the attached object of type t cached in the side table of host h
CachedIn(dd, hp, h, t) ==
    IF dd[h] = NULL THEN NULL ELSE value(hp[dd[h]].attachedProperties, t)

Cached(h, t) == CachedIn(declarativeData, heap, h, t)

\* the side table of host h has an entry for type t, whatever it holds
HasEntry(h, t) ==
    /\ declarativeData[h] # NULL
    /\ t \in DOMAIN heap[declarativeData[h]].attachedProperties

\* every attached object some side table caches
AllCached == {Cached(h, t) : h \in Hosts, t \in Types} \ {NULL}

\* C18 as stated: once a name has been resolved as an attached-object lookup
\* for host H and type T, the query, the read and the write are made by the
\* generic accessor on the attached object of (H, T), never on H.
C18_DelegatedToCompanion ==
    [][(/\ lookup'.op \in {"queryProperty", "property", "setProperty"}
        /\ lookup' # lookup
        /\ lookup'.data.type # NULL
        /\ scriptClass'.object # NULL) =>
          /\ lookup'.target = CachedIn(declarativeData', heap',
                                       lookup'.data.object, lookup'.data.type)
          /\ lookup'.target # lookup'.data.object
      ]_vars

\* C19 as stated: however many lookups there are against (H, T), the
\* attached-properties function is called for the pair once, by the first of
\* them, and every lookup obtains the same attached object.
C19_FactoryOnce ==
    [][\A h \in Hosts, t \in Types :
        AttachedStep(h, t) =>
            /\ lookup'.called <=>
                  (~factory.declined[h][t] /\ factory.made[h][t] = 0)
            /\ (factory.declined[h][t] \/ factory.made[h][t] > 0) =>
                  scriptClass'.object = Cached(h, t)
      ]_vars

\* C19 amended: a lookup against (H, T) whose side table caches an attached
\* object for T obtains that object without calling the attached-properties
\* function and without a new side table; one that finds none cached calls
\* the function once and caches the object it makes, which is no object
\* cached anywhere before; the function makes at most one object per pair.
C19_MemoizedOnceMade ==
    [][\A h \in Hosts, t \in Types :
        AttachedStep(h, t) =>
            /\ Cached(h, t) # NULL =>
                  /\ scriptClass'.object = Cached(h, t)
                  /\ lookup'.target = Cached(h, t)
                  /\ NoSideEffect
            /\ Cached(h, t) = NULL =>
                  /\ lookup'.called
                  /\ Cached(h, t)' = scriptClass'.object
                  /\ scriptClass'.object # NULL =>
                        /\ scriptClass'.object \notin AllCached
                        /\ scriptClass'.object \notin Hosts
                        /\ factory'.made[h][t] = factory.made[h][t] + 1
            /\ declarativeData[h] # NULL =>
                  declarativeData'[h] = declarativeData[h]
            /\ \A h2 \in Hosts, t2 \in Types :
                  (h2 # h \/ t2 # t) => Cached(h2, t2)' = Cached(h2, t2)
            /\ factory'.made[h][t] <= 1
      ]_vars

C19_Witness ==
    /\ lookup.op = "queryProperty"
    /\ lookup.data.object # NULL
    /\ ~lookup.called
    /\ lookup.target # NULL
    /\ factory.declined[lookup.data.object][lookup.data.type]
    /\ \E t \in Types :
          /\ t # lookup.data.type
          /\ Cached(lookup.data.object, t) # NULL
    /\ \E h \in Hosts :
          /\ h # lookup.data.object
          /\ Cached(h, lookup.data.type) # NULL

\* C20: when the attached-properties function returns no object for (H, T)
\* the lookup is unresolved and the side table gets no entry for T; a lookup
\* that finds no object cached, also after such a refusal, calls the function
\* again, and when the function then makes an object the lookup caches it and
\* goes to the generic accessor with it.
C20_DeclineNotCached ==
    [][\A h \in Hosts, t \in Types :
        (AttachedStep(h, t) /\ Cached(h, t) = NULL) =>
            /\ lookup'.called
            /\ ~HasEntry(h, t)
            /\ ~lookup'.made =>
                  /\ Resolution'.kind = "unresolved"
                  /\ lookup'.flags = {}
                  /\ scriptClass'.object = NULL
                  /\ lookup'.target = NULL
                  /\ ~HasEntry(h, t)'
                  /\ factory'.declined[h][t]
            /\ lookup'.made =>
                  /\ scriptClass'.object # NULL
                  /\ Cached(h, t)' = scriptClass'.object
                  /\ lookup'.target = scriptClass'.object
                  /\ lookup'.flags # {} =>
                        Resolution' = [kind |-> "companion",
                                       value |-> scriptClass'.object]
      ]_vars

C20_Witness ==
    /\ lookup.op = "queryProperty"
    /\ lookup.called
    /\ lookup.made
    /\ lookup.flags # {}
    /\ factory.declined[lookup.data.object][lookup.data.type]
    /\ Cached(lookup.data.object, lookup.data.type) = lookup.target

\* C21: for a type as subject, a name that does not start in upper case and
\* no object in scope, resolve is unresolved: queryProperty reports nothing
\* handled, leaves object and type null, creates no side table, and no
\* attached object is looked up or made.
C21_NoHostUnresolved ==
    [][(/\ QueryStep
        /\ lookup'.data.type # NULL
        /\ lookup'.data.object = NULL
        /\ ~isUpper(lookup'.name[1])) =>
          /\ Resolution'.kind = "unresolved"
          /\ lookup'.flags = {}
          /\ NoSideEffect
          /\ scriptClass'.object = NULL
          /\ scriptClass'.type = NULL
          /\ lookup'.target = NULL
      ]_vars

C21_Witness ==
    /\ lookup.op = "queryProperty"
    /\ lookup.data.type # NULL
    /\ lookup.data.object = NULL
    /\ lookup.name = foo
    /\ lookup.flags = {}
    /\ \E h \in Hosts : Cached(h, lookup.data.type) # NULL
    /\ \E h \in Hosts : declarativeData[h] = NULL

\* C26: for a type as subject in a mode other than IncludeEnums, every name
\* that starts in upper case is unresolved, the keys of the type's
\* enumerators among them, and enumValue is not stored into.
C26_EnumsExcluded ==
    [][(/\ QueryStep
        /\ lookup'.data.type # NULL
        /\ lookup'.data.mode # "IncludeEnums"
        /\ isUpper(lookup'.name[1])) =>
          /\ Resolution'.kind = "unresolved"
          /\ lookup'.flags = {}
          /\ scriptClass'.enumValue = scriptClass.enumValue
          /\ scriptClass'.assigned = scriptClass.assigned
      ]_vars

C26_Witness ==
    /\ lookup.op = "queryProperty"
    /\ lookup.data.type # NULL
    /\ lookup.data.mode = "ExcludeEnums"
    /\ lookup.name = Foo
    /\ Len(lookup.metaObject) > 0
    /\ \A ii \in 1..Len(lookup.metaObject) :
          /\ Foo \in DOMAIN lookup.metaObject[ii]
          /\ lookup.metaObject[ii][Foo] # -1
    /\ lookup.flags = {}
    /\ scriptClass.assigned

\* the step is a property() call, which follows a queryProperty that
\* reported read access
PropertyStep == lookup.op = "queryProperty" /\ lookup'.op = "property"

\* C25: property() called after a queryProperty that reported the name as
\* handled returns what that query found and nothing an earlier lookup left
\* in the script class: for a namespace the type reference to the entry's
\* type, for a name in upper case the value the enumerator loop found, for
\* any other name the read by the generic accessor on the attached object of
\* the object in scope.
C25_PropertyOfThisQuery ==
    [][PropertyStep =>
          LET data == lookup.data
          IN /\ data.typeNamespace # NULL =>
                   /\ lookup'.result = [kind |-> "type reference",
                                        value |-> lookup.d.type]
                   /\ lookup.d.found
                   /\ lookup.d.type # NULL
             /\ (data.type # NULL /\ isUpper(lookup.name[1])) =>
                   lookup'.result =
                      [kind |-> "enum value",
                       value |-> enumLoop(lookup.metaObject, lookup.name,
                                          Len(lookup.metaObject))]
             /\ (data.type # NULL /\ ~isUpper(lookup.name[1])) =>
                   /\ data.object # NULL
                   /\ lookup'.result = [kind |-> "companion",
                                        value |-> Cached(data.object, data.type)]
                   /\ lookup'.target = Cached(data.object, data.type)
                   /\ Cached(data.object, data.type) # NULL
      ]_vars

C25_Witness ==
    /\ lookup.op = "property"
    /\ lookup.result.kind = "companion"
    /\ scriptClass.assigned
    /\ \E t \in Types :
          /\ Cached(lookup.data.object, t) # NULL
          /\ Cached(lookup.data.object, t) # lookup.result.value

\* ------------------------------------------------ side table lifetime
\* C23: a side table a host has got stays that host's side table, live, as
\* long as onHostDestroyed(host) has not released it: whatever register,
\* unregister, retarget, attach and detach calls are made, the last guard
\* and the last binding leaving included, and get(host, ...) returns it.
C23_SideTableStays ==
    [][\A h \in Hosts :
        LET d == declarativeData[h]
        IN (d # NULL /\ heap[d].alloc = "live") =>
              /\ declarativeData'[h] = d
              /\ heap'[d].alloc # "live" =>
                    /\ pc.op = "destroy"
                    /\ pc.h = h
                    /\ last'.op = "onHostDestroyed"
                    /\ last'.h = h
              /\ GetStep(h) => last'.ret = d /\ ~last'.fresh
      ]_vars

C23_Witness ==
    /\ pc = Idle
    /\ last.op = "retarget"
    /\ last.h = NULL
    /\ last.from # NULL
    /\ hostState[last.from] = "alive"
    /\ declarativeData[last.from] # NULL
    /\ heap[declarativeData[last.from]].alloc = "live"
    /\ heap[declarativeData[last.from]].guards = NULL
    /\ heap[declarativeData[last.from]].bindings = <<>>
    /\ \A g \in Guards : target(g) = NULL
    /\ \A b \in Bindings : binding[b].owner = NULL
    /\ \E h \in Hosts : hostState[h] = "destroyed"

\* ---------------------------------------------------- guard list shape
\* the GuardList of side table d is well formed: it ends in null without
\* meeting a guard twice, holds just the guards whose target is host h, and
\* each of its guards has as prev the slot that points at it
WellFormed(h, d) ==
    LET L == GuardList(d)
    IN /\ Len(L) <= NumGuards
       /\ NoDuplicates(L)
       /\ Range(L) = {g \in Guards : target(g) = h}
       /\ \A k \in 1..Len(L) :
             guard[L[k]].prev = IF k = 1 THEN GuardsSlot(d) ELSE NextSlot(L[k - 1])
       /\ Len(L) > 0 => guard[L[Len(L)]].next = NULL

\* C24: under register calls on unlinked guards and unregister calls on
\* linked guards every host's GuardList is well formed, a guard that is in
\* no list has next and prev null, and the lists are in
\* most-recently-registered-first order: register puts the guard in front of
\* the list as it was, unregister takes the guard out and leaves the others
\* in their order, and no other list changes.
C24_GuardListShape ==
    /\ [](/\ \A h \in Hosts :
               declarativeData[h] # NULL => WellFormed(h, declarativeData[h])
          /\ \A g \in Guards :
               /\ ~Linked(g) => (guard[g] = NewGuard /\ ListsOf(g) = {})
               /\ Linked(g) => (target(g) # NULL /\ Cardinality(ListsOf(g)) = 1))
    /\ [][\A h \in Hosts, g \in Guards :
            RegisterStep(h, g) =>
               /\ GuardListIn(Mem', declarativeData'[h]) =
                     <<g>> \o (IF declarativeData[h] = NULL THEN <<>>
                               ELSE GuardList(declarativeData[h]))
               /\ \A d \in DataIds \ {declarativeData'[h]} :
                     GuardListIn(Mem', d) = GuardList(d)
         ]_vars
    /\ [][\A g \in Guards :
            UnregisterStep(g) =>
               \A d \in DataIds :
                  GuardListIn(Mem', d) = SeqWithout(GuardList(d), g)
         ]_vars

C24_Witness ==
    /\ last.op = "unregister"
    /\ guard[last.g] = NewGuard
    /\ \E h \in Hosts :
          /\ declarativeData[h] # NULL
          /\ Len(GuardList(declarativeData[h])) = NumGuards - 1
          /\ guard[GuardList(declarativeData[h])[2]].prev =
                NextSlot(GuardList(declarativeData[h])[1])

\* ------------------------------------------------------ Text item claims
\* the step is a call of the handler op on the Text item
TextStep(op) == textCall'.op = op /\ <<textItem, textCall>>' # <<textItem, textCall>>

\* C22 as stated: a mouse release emits linkActivated(link) only on rich
\* text, when the press before it was on a link anchor and the release is on
\* that same anchor, link being that anchor and not empty; a press and a
\* release where there is no link emit nothing.
C22_OnlyLinksActivated ==
    [][(TextStep("mouseReleaseEvent") /\ textCall'.emitted # <<>>) =>
          /\ textItem.richText
          /\ textCall.pressed # NoPress
          /\ textCall.pressed # <<>>
          /\ textCall'.anchor = textCall.pressed
          /\ textCall'.emitted = <<textCall.pressed>>
      ]_vars

\* C27: under setText and setTextFormat calls richText is
\* format == RichText || (format == AutoText && mightBeRichText(text)), and
\* while richText is set the document exists and the html it was given last
\* is the current text.
C27_RichTextFollowsFormat ==
    /\ textItem.richText <=>
          \/ textItem.format = "RichText"
          \/ textItem.format = "AutoText" /\ mightBeRichText(textItem.text)
    /\ textItem.richText =>
          /\ textItem.doc.exists
          /\ textItem.doc.html = textItem.text

C27_Witness ==
    /\ textCall.op = "setTextFormat"
    /\ textItem.format = "AutoText"
    /\ textItem.text = Link
    /\ textItem.richText
    /\ textItem.doc.html = Link
    /\ textItem.layout.by = "parse"
    /\ textItem.complete

\* C28 as stated: on a completed Text item that is not rich text before or
\* after, has a text and a layout made for its format, a setTextFormat call
\* that changes the format leaves a layout made by the styled-text parser
\* exactly when the format now is StyledText.
C28_LayoutFollowsFormat ==
    [][(/\ TextStep("setTextFormat")
        /\ textItem.complete
        /\ ~textItem.richText
        /\ ~textItem'.richText
        /\ textItem'.format # textItem.format
        /\ textItem.text # NoText
        /\ textItem.layout.by # "none"
        /\ textItem.layout.by = "parse" <=> textItem.format = "StyledText") =>
          (textItem'.layout.by = "parse" <=> textItem'.format = "StyledText")
      ]_vars

\* C29: before componentComplete a call that asks for updateLayout or
\* updateSize lays nothing out and leaves dirty set; componentComplete calls
\* updateLayout once when dirty is set and not at all when it is not, and
\* clears dirty; a completed item stays completed and its dirty flag stays
\* clear.
C29_LayoutDeferred ==
    /\ [][(/\ ~textItem'.complete
           /\ <<textItem, textCall>>' # <<textItem, textCall>>
           /\ textCall'.updateLayout + textCall'.updateSize > 0) =>
             /\ textItem'.layout = textItem.layout
             /\ textItem'.cachedLayoutSize = textItem.cachedLayoutSize
             /\ textItem'.singleline = textItem.singleline
             /\ textItem'.dirty
         ]_vars
    /\ [][(~textItem.complete /\ textItem'.complete) =>
             /\ textCall'.op = "componentComplete"
             /\ textCall'.updateLayout = (IF textItem.dirty THEN 1 ELSE 0)
             /\ ~textItem'.dirty
             /\ (textItem.dirty /\ ~textItem.richText) =>
                   /\ textItem'.layout.by # "none"
                   /\ textItem'.layout.text \in {textItem.text,
                                                 replace(textItem.text)}
             /\ ~textItem.dirty => textItem'.layout = textItem.layout
         ]_vars
    /\ [][textItem.complete => textItem'.complete]_vars
    /\ [](textItem.complete => ~textItem.dirty)

C29_Witness ==
    /\ textCall.op = "componentComplete"
    /\ textCall.updateLayout = 1
    /\ textCall.updateSize = 1
    /\ textItem.complete
    /\ textItem.format = "StyledText"
    /\ textItem.text = Bold
    /\ textItem.layout = [by |-> "parse", text |-> Bold, elided |-> FALSE]
    /\ textItem.wrap

====
